---- MODULE Spec2Model ----
(***************************************************************************)
(* SISModel.simulate (netrd/dynamics/SIS.py) as a state machine.           *)
(*                                                                         *)
(* One call of simulate is followed statement by statement: the copy of    *)
(* the input graph and the allocation of TS, the defaults of beta and mu,  *)
(* the seeding of column 0, the timestep loop (early break, one visit per  *)
(* node of a random permutation, commit of the staging attribute, store of *)
(* column t), the padding and the return.  Random draws are               *)
(* nondeterministic choices over the outcomes that random() < p allows.    *)
(***************************************************************************)
EXTENDS Integers, Sequences, FiniteSets, TLC

(***************************************************************************)
(* Bounds of the model.                                                    *)
(***************************************************************************)
MaxN == 3
MaxL == 3
MaxEdges == 3
\* TS has at most MaxCells entries (N * L).
MaxCells == 9
\* The same, for the calls followed to their end under fairness.
MaxLiveCells == 6
\* The same, for the calls whose passes draw their outcomes beforehand.
MaxPassCells == 6
\* The same, for the calls that are made a second time on the same object.
MaxReplayCells == 4

VARIABLES pc, args, heap, H, N, TS, index_to_node, beta, mu, t, nodes,
          results, error, ret

\* The random outcomes of a pass when they are drawn at its start: the
\* pairs (i, j) whose draw against beta is low and the nodes whose draw
\* against mu is low.
VARIABLES draws

\* Two calls on one simulator object with the same arguments and the same
\* random outcomes: which call is running, the outcomes the first call drew
\* (the seed vector, then per pass the visiting order and the draws), and
\* the matrix the first call returned.
VARIABLES run, tape, first

vars == <<pc, args, heap, H, N, TS, index_to_node, beta, mu, t, nodes,
          results, error, ret, draws, run, tape, first>>

(***************************************************************************)
(* Values.                                                                 *)
(***************************************************************************)
\* Python's None, for an omitted beta or mu and for "no value".
None == <<>>

\* A rate num/den; den = 0 with num > 0 is the float inf.
Rate(num, den) == <<num, den>>

\* A node attribute that is not set.
ABSENT == -1

\* References to graph objects: the caller's graph and the copy made by
\* the call.
Refs == {"G", "H", "H2"}

NoGraph == [nodes |-> <<>>, adj |-> <<>>, attrs |-> <<>>]

NoAttrs == [infected |-> ABSENT, next_infected |-> ABSENT]

\* The edges a graph over n nodes may have: every unordered pair {i, j} of
\* distinct nodes, and a self-loop on node 1.
Pairs(n) == {p \in SUBSET (1..n) : Cardinality(p) = 2} \cup {{1}}

\* An nx.Graph over the nodes 1..n, enumerated in that order, with the
\* edge set E and no node attribute.
MkGraph(n, E) ==
    [nodes |-> [k \in 1..n |-> k],
     adj   |-> [i \in 1..n |-> {j \in 1..n : {i, j} \in E}],
     attrs |-> [i \in 1..n |-> NoAttrs]]

\* The graphs a caller may pass: up to MaxN nodes and up to MaxEdges edges
\* (a self-loop included), the nodes numbered by descending number of
\* neighbours.
InputGraphs ==
    UNION {{g \in {MkGraph(n, E) :
                      E \in {X \in SUBSET Pairs(n) : Cardinality(X) <= MaxEdges}} :
               \A i \in 1..(n - 1) :
                   Cardinality(g.adj[i]) >= Cardinality(g.adj[i + 1])} :
           n \in 1..MaxN}

\* The values of L, num_seeds, beta and mu a caller may pass (valid and not).
Ls == (-1)..MaxL
NumSeeds(n) == (-1)..(n + 1)
Betas == {None, Rate(0, 1), Rate(1, 2), Rate(1, 1), Rate(2, 1)}
Mus == {None, Rate(-1, 1), Rate(0, 1), Rate(1, 1)}

(***************************************************************************)
(* The library calls simulate makes.                                       *)
(***************************************************************************)
\* H = G: a second name for the caller's graph object.
alias(ref) == ref

\* G.copy(): the reference of a new graph object.
copy(ref) == IF run = 1 THEN "H" ELSE "H2"

number_of_nodes(g) == Len(g.nodes)

\* A self-loop counts twice in a node's degree.
degree(g, i) == Cardinality(g.adj[i]) + (IF i \in g.adj[i] THEN 1 ELSE 0)

RECURSIVE SumSeq(_)
SumSeq(s) == IF s = <<>> THEN 0 ELSE Head(s) + SumSeq(Tail(s))

\* np.ones((n, l)).
ones(n, l) == [i \in 1..n |-> [c \in 1..l |-> 1]]

\* np.empty((n, l)): zero pages on a new simulator object, the non-zero
\* memory that the matrix of the previous call left behind afterwards.
emptyReused(n, l) ==
    [i \in 1..n |-> [c \in 1..l |-> IF results.TS = None THEN 0 ELSE 1]]

\* np.zeros((n, l)): n rows of l columns (l >= 0).
zeros(n, l) == [i \in 1..n |-> [c \in 1..l |-> 0]]

\* np.repeat(v, k) for k >= 0.
repeat(v, k) == [i \in 1..k |-> v]

\* A Python list repetition [v] * k, which is empty for a negative k.
RepeatNeverRaises(k) == FALSE

\* np.repeat(v, k) raises ValueError on a negative count.
RepeatRaises(k) == k < 0

\* np.random.permutation(s): the arrangements of s it can return.
permutation(s) ==
    {[k \in 1..Len(s) |-> s[p[k]]] : p \in Permutations(1..Len(s))}

\* Python's "not x" for a rate or None.
Not(x) == x = None \/ x[1] = 0

\* The outcomes of "np.random.random() < p" with random() in [0, 1).
CanSucceed(p) == p[1] > 0
CanFail(p) == p[1] < p[2]

\* TS[:, c] (c counted from 0) and its assignment.
Col(M, c) == [i \in 1..Len(M) |-> M[i][c + 1]]
SetCol(M, c, v) == [i \in 1..Len(M) |-> [M[i] EXCEPT ![c + 1] = v[i]]]
shape(M) == <<Len(M), IF Len(M) = 0 THEN 0 ELSE Len(M[1])>>

\* np.hstack([A, B]) of two matrices with the same number of rows.
hstack(A, B) == [i \in 1..Len(A) |-> A[i] \o B[i]]

\* nx.set_node_attributes(g, values, name), values keyed by node.
set_node_attributes(g, values, name) ==
    [g EXCEPT !.attrs = [i \in DOMAIN g.attrs |->
        IF i \in DOMAIN values THEN [g.attrs[i] EXCEPT ![name] = values[i]]
        ELSE g.attrs[i]]]

\* nx.set_node_attributes(g, 0, name): the same value on every node.
set_all_node_attributes(g, v, name) ==
    set_node_attributes(g, [i \in DOMAIN g.attrs |-> v], name)

\* nx.get_node_attributes(g, name): the nodes that have the attribute.
get_node_attributes(g, name) ==
    [i \in {j \in DOMAIN g.attrs : g.attrs[j][name] # ABSENT} |->
        g.attrs[i][name]]

\* The values of a dictionary enumerated from the last node to the first.
valuesReversed(g, d) ==
    [k \in 1..Len(g.nodes) |-> d[g.nodes[Len(g.nodes) + 1 - k]]]

\* list(d.values()) of a dictionary keyed in the graph's node order.
values(g, d) == [k \in 1..Len(g.nodes) |-> d[g.nodes[k]]]

(***************************************************************************)
(* Pieces of simulate.                                                     *)
(***************************************************************************)
\* Line 54: dict(zip(range(G.order()), list(G.nodes()))).
IndexToNode(g) == [k \in 0..(Len(g.nodes) - 1) |-> g.nodes[k + 1]]

\* Lines 57-59: beta, or 1 / avg_k when "not beta".
DefaultBeta(g, b) ==
    IF Not(b)
    THEN Rate(number_of_nodes(g),
              SumSeq([k \in 1..Len(g.nodes) |-> degree(g, g.nodes[k])]))
    ELSE b

\* Lines 60-61: mu, or 1 / N when "not mu".
DefaultMu(g, m) == IF Not(m) THEN Rate(1, number_of_nodes(g)) ELSE m

\* Seeds drawn one by one with replacement: up to k distinct nodes.
SeedVectorsWithReplacement(n, k) ==
    {v \in [1..n -> {0, 1}] : SumSeq(v) <= k /\ (k > 0 => SumSeq(v) >= 1)}

\* Lines 63-65: the seed vectors the permutation can return.
SeedVectors(n, k) == permutation(repeat(1, k) \o repeat(0, n - k))

\* The seeds handed to the nodes in the opposite order.
InfectedAttrReversed(itn, seeds) ==
    [v \in {itn[k] : k \in DOMAIN itn} |->
        seeds[Len(seeds) - CHOOSE k \in DOMAIN itn : itn[k] = v]]

\* Line 67: {index_to_node[i]: s for i, s in enumerate(seeds)}.
InfectedAttr(itn, seeds) ==
    [v \in {itn[k] : k \in DOMAIN itn} |->
        seeds[1 + CHOOSE k \in DOMAIN itn : itn[k] = v]]

\* "if not H.nodes[i]['infected']": the susceptible nodes spread.
IsSusceptible(g, i) == g.attrs[i].infected = 0

\* Line 82: "if H.nodes[i]['infected']".
IsInfected(g, i) == g.attrs[i].infected # 0

\* next_infected += 1 for the neighbours whose draw succeeded.
InfectIncrement(g, S) ==
    set_node_attributes(g, [j \in S |-> g.attrs[j].next_infected + 1],
                        "next_infected")

\* Only the neighbours that are susceptible right now are staged.
InfectSusceptibleOnly(g, S) ==
    set_node_attributes(g, [j \in {k \in S : g.attrs[k].infected = 0} |-> 1],
                        "next_infected")

\* Lines 84-86: the neighbours j whose draw succeeded get next_infected = 1.
Infect(g, S) ==
    set_node_attributes(g, [j \in S |-> 1], "next_infected")

\* The sets of neighbours picked by "np.random.random() > b".
TransmissionsReversed(neigh, b) ==
    {S \in SUBSET neigh : /\ (~CanFail(b) => S = {})
                          /\ (~CanSucceed(b) => S = neigh)}

\* The sets of neighbours the draws against b can pick.
Transmissions(neigh, b) ==
    {S \in SUBSET neigh : /\ (~CanFail(b) => S = neigh)
                          /\ (~CanSucceed(b) => S = {})}

\* A cure that also withdraws the node from the staging attribute.
CureClearsStaging(g, i, cured) ==
    IF cured
    THEN set_node_attributes(
             set_node_attributes(g, [j \in {i} |-> 0], "infected"),
             [j \in {i} |-> 0], "next_infected")
    ELSE set_node_attributes(g, [j \in {i} |-> 1], "next_infected")

\* Lines 89-94: the visited node is cured now, or staged as infected.
Cure(g, i, cured) ==
    IF cured THEN set_node_attributes(g, [j \in {i} |-> 0], "infected")
    ELSE set_node_attributes(g, [j \in {i} |-> 1], "next_infected")

\* The commit without line 99: next_infected is not reset.
CommitNoReset(g) ==
    set_node_attributes(g, get_node_attributes(g, "next_infected"),
                        "infected")

\* "np.random.random() < p" for a draw that is low (0) or high (just
\* under 1).
Outcome(low, p) == IF low THEN CanSucceed(p) ELSE ~CanFail(p)

\* The outcomes a pass over g can draw: one per (infected node, neighbour)
\* pair against b and one per infected node against m.
DrawTables(g, b, m) ==
    LET inf == {i \in DOMAIN g.attrs : IsInfected(g, i)}
        pairs == {<<i, j>> \in inf \X DOMAIN g.attrs : j \in g.adj[i]}
    IN  {[xmit |-> X, cure |-> C] :
            X \in {Y \in SUBSET pairs : /\ (~CanFail(b) => Y = pairs)
                                        /\ (~CanSucceed(b) => Y = {})},
            C \in {D \in SUBSET inf : /\ (~CanFail(m) => D = inf)
                                      /\ (~CanSucceed(m) => D = {})}}

\* Lines 82-94: the visit of node i with the outcomes d.
PassVisit(g, i, d, b, m) ==
    IF IsInfected(g, i)
    THEN Cure(Infect(g, {j \in g.adj[i] : Outcome(<<i, j>> \in d.xmit, b)}),
              i, Outcome(i \in d.cure, m))
    ELSE g

\* Lines 79-94: the visits of a pass in the given order.
RECURSIVE RunPass(_, _, _, _, _)
RunPass(g, order, d, b, m) ==
    IF order = <<>> THEN g
    ELSE RunPass(PassVisit(g, Head(order), d, b, m), Tail(order), d, b, m)

\* Lines 95-99: next_infected becomes infected and is reset to 0.
CommitAttrs(g) ==
    set_all_node_attributes(
        set_node_attributes(g, get_node_attributes(g, "next_infected"),
                            "infected"),
        0, "next_infected")

\* The padding with the row count taken for the column count.
padRows(M, n, l) ==
    IF shape(M)[1] < l THEN hstack(M, zeros(n, l - shape(M)[1])) ELSE M

\* Lines 106-107: pad to l columns when there are fewer.
pad(M, n, l) ==
    IF shape(M)[2] < l THEN hstack(M, zeros(n, l - shape(M)[2])) ELSE M

(***************************************************************************)
(* The simulator object before the call.                                   *)
(***************************************************************************)
\* No outcome drawn beforehand.
NoDraws == [xmit |-> {}, cure |-> {}]

\* Nothing drawn yet.
NoTape == [seeds |-> <<>>, passes |-> <<>>]

\* BaseDynamics.__init__: self.results = {}.
EmptyResults == [ground_truth |-> "none", TS |-> None, index_to_node |-> None]

Init ==
    /\ pc = "idle"
    /\ results = EmptyResults
    /\ heap = [r \in Refs |-> NoGraph]
    /\ args = [G |-> "G", L |-> 0, num_seeds |-> 0, beta |-> None, mu |-> None]
    /\ H = "none"
    /\ N = 0
    /\ TS = <<>>
    /\ index_to_node = <<>>
    /\ beta = None
    /\ mu = None
    /\ t = 0
    /\ nodes = <<>>
    /\ error = "none"
    /\ ret = None
    /\ draws = NoDraws
    /\ run = 1
    /\ tape = NoTape
    /\ first = None

(***************************************************************************)
(* simulate(G, L, num_seeds, beta, mu), statement by statement.            *)
(***************************************************************************)
\* The caller invokes simulate on a graph it owns.
Call ==
    /\ pc = "idle"
    /\ \E g \in InputGraphs, l \in Ls, b \in Betas, m \in Mus :
         \E k \in NumSeeds(number_of_nodes(g)) :
            /\ number_of_nodes(g) * l <= MaxCells
            /\ heap' = [heap EXCEPT !["G"] = g]
            /\ args' = [G |-> "G", L |-> l, num_seeds |-> k,
                        beta |-> b, mu |-> m]
            /\ beta' = b
            /\ mu' = m
    /\ pc' = "copy"
    /\ UNCHANGED <<H, N, TS, index_to_node, t, nodes, results, error, ret,
                   draws, run, tape, first>>

\* Lines 51-54.  np.zeros raises ValueError on a negative dimension.
CopyAndAllocate ==
    /\ pc = "copy"
    /\ LET r == copy(args.G) IN
         /\ H' = r
         /\ heap' = [heap EXCEPT ![r] = heap[args.G]]
         /\ N' = number_of_nodes(heap[args.G])
         /\ IF args.L < 0
            THEN /\ error' = "ValueError"
                 /\ pc' = "failed"
                 /\ UNCHANGED <<TS, index_to_node>>
            ELSE /\ TS' = zeros(number_of_nodes(heap[args.G]), args.L)
                 /\ index_to_node' = IndexToNode(heap[args.G])
                 /\ pc' = "defaults"
                 /\ UNCHANGED error
    /\ UNCHANGED <<args, beta, mu, t, nodes, results, ret,
                   draws, run, tape, first>>

\* Lines 56-61.
ResolveDefaults ==
    /\ pc = "defaults"
    /\ beta' = DefaultBeta(heap[H], beta)
    /\ mu' = DefaultMu(heap[H], mu)
    /\ pc' = "seed"
    /\ UNCHANGED <<args, heap, H, N, TS, index_to_node, t, nodes, results,
                   error, ret,
                   draws, run, tape, first>>

\* Lines 63-69.  np.repeat raises ValueError on a negative count, and
\* TS[:, 0] raises IndexError when TS has no column.
SeedWith(seeds) ==
    /\ pc = "seed"
    /\ IF RepeatRaises(args.num_seeds) \/ RepeatRaises(N - args.num_seeds)
       THEN /\ error' = "ValueError"
            /\ pc' = "failed"
            /\ UNCHANGED <<heap, TS, t>>
       ELSE IF shape(TS)[2] < 1
       THEN /\ error' = "IndexError"
            /\ pc' = "failed"
            /\ UNCHANGED <<heap, TS, t>>
       ELSE /\ TS' = SetCol(TS, 0, seeds)
            /\ heap' = [heap EXCEPT ![H] =
                  set_all_node_attributes(
                      set_node_attributes(@, InfectedAttr(index_to_node, seeds),
                                          "infected"),
                      0, "next_infected")]
            /\ t' = 1
            /\ pc' = "loop"
            /\ UNCHANGED error
    /\ UNCHANGED <<args, H, N, index_to_node, beta, mu, nodes, results, ret,
                   draws>>

\* Line 65: the vectors the permutation can return, when lines 63-64 get
\* that far.
SeedDraws ==
    IF RepeatRaises(args.num_seeds) \/ RepeatRaises(N - args.num_seeds)
    THEN {<<>>}
    ELSE SeedVectors(N, args.num_seeds)

Seed ==
    /\ pc = "seed"
    /\ \E seeds \in SeedDraws : SeedWith(seeds)
    /\ UNCHANGED <<run, tape, first>>

\* Line 72: range(1, L) is exhausted.
LoopExit ==
    /\ pc = "loop"
    /\ t > args.L - 1
    /\ pc' = "return"
    /\ UNCHANGED <<args, heap, H, N, TS, index_to_node, beta, mu, t, nodes,
                   results, error, ret,
                   draws, run, tape, first>>

\* Lines 74-75: the epidemic ended in the previous timestep.
Break ==
    /\ pc = "loop"
    /\ t <= args.L - 1
    /\ SumSeq(Col(TS, t - 1)) < 1
    /\ pc' = "return"
    /\ UNCHANGED <<args, heap, H, N, TS, index_to_node, beta, mu, t, nodes,
                   results, error, ret,
                   draws, run, tape, first>>

\* Line 78: a fresh random order of the nodes.
BeginPass ==
    /\ pc = "loop"
    /\ t <= args.L - 1
    /\ ~(SumSeq(Col(TS, t - 1)) < 1)
    /\ nodes' \in permutation(heap[H].nodes)
    /\ pc' = "visit"
    /\ UNCHANGED <<args, heap, H, N, TS, index_to_node, beta, mu, t, results,
                   error, ret,
                   draws, run, tape, first>>

\* Lines 79-94: the visit of the next node of the order.
Visit ==
    /\ pc = "visit"
    /\ nodes # <<>>
    /\ LET i == Head(nodes)
           g == heap[H] IN
         IF IsInfected(g, i)
         THEN \E S \in Transmissions(g.adj[i], beta) :
              \E cured \in {c \in BOOLEAN : (c => CanSucceed(mu))
                                            /\ (~c => CanFail(mu))} :
                 heap' = [heap EXCEPT ![H] = Cure(Infect(g, S), i, cured)]
         ELSE UNCHANGED heap
    /\ nodes' = Tail(nodes)
    /\ UNCHANGED <<pc, args, H, N, TS, index_to_node, beta, mu, t, results,
                   error, ret,
                   draws, run, tape, first>>

\* The end of a timestep in a loop that does not advance t.
CommitNoAdvance ==
    /\ pc = "visit"
    /\ nodes = <<>>
    /\ LET g == CommitAttrs(heap[H]) IN
         /\ heap' = [heap EXCEPT ![H] = g]
         /\ TS' = SetCol(TS, t, values(g, get_node_attributes(g, "infected")))
    /\ pc' = "loop"
    /\ UNCHANGED <<args, H, N, index_to_node, beta, mu, t, nodes, results,
                   error, ret,
                   draws, run, tape, first>>

\* Lines 78-94 with the outcomes of the pass drawn at its start.
BeginPassWith(order, d) ==
    /\ pc = "loop"
    /\ t <= args.L - 1
    /\ ~(SumSeq(Col(TS, t - 1)) < 1)
    /\ nodes' = order
    /\ draws' = d
    /\ pc' = "visit"
    /\ UNCHANGED <<args, heap, H, N, TS, index_to_node, beta, mu, t, results,
                   error, ret>>

BeginPassFixed ==
    /\ pc = "loop"
    /\ \E order \in permutation(heap[H].nodes) :
          \E d \in DrawTables(heap[H], beta, mu) : BeginPassWith(order, d)
    /\ UNCHANGED <<run, tape, first>>

VisitFixed ==
    /\ pc = "visit"
    /\ nodes # <<>>
    /\ heap' = [heap EXCEPT ![H] = PassVisit(@, Head(nodes), draws, beta, mu)]
    /\ nodes' = Tail(nodes)
    /\ UNCHANGED <<pc, args, H, N, TS, index_to_node, beta, mu, t, results,
                   error, ret, draws, run, tape, first>>

\* Lines 95-103: commit the staged state and store it as column t.
Commit ==
    /\ pc = "visit"
    /\ nodes = <<>>
    /\ LET g == CommitAttrs(heap[H]) IN
         /\ heap' = [heap EXCEPT ![H] = g]
         /\ TS' = SetCol(TS, t, values(g, get_node_attributes(g, "infected")))
    /\ t' = t + 1
    /\ pc' = "loop"
    /\ UNCHANGED <<args, H, N, index_to_node, beta, mu, nodes, results,
                   error, ret,
                   draws, run, tape, first>>

\* Lines 105-113: pad, store the results on the object and return TS.
Return ==
    /\ pc = "return"
    /\ LET M == pad(TS, N, args.L) IN
         /\ TS' = M
         /\ results' = [ground_truth |-> H, TS |-> M,
                        index_to_node |-> index_to_node]
         /\ ret' = M
    /\ pc' = "done"
    /\ UNCHANGED <<args, heap, H, N, index_to_node, beta, mu, t, nodes, error,
                   draws, run, tape, first>>

Next ==
    \/ Call
    \/ CopyAndAllocate
    \/ ResolveDefaults
    \/ Seed
    \/ LoopExit
    \/ Break
    \/ BeginPass
    \/ Visit
    \/ Commit
    \/ Return

Spec == Init /\ [][Next]_vars

\* The simulator at the entry of a call for a time series of at most cells
\* entries: the state CallWith(cells) leads to.
Entered(cells) ==
    /\ pc = "copy"
    /\ results = EmptyResults
    /\ \E g \in InputGraphs, l \in Ls, b \in Betas, m \in Mus :
         \E k \in NumSeeds(number_of_nodes(g)) :
            /\ number_of_nodes(g) * l <= cells
            /\ heap = [r \in Refs |-> IF r = "G" THEN g ELSE NoGraph]
            /\ args = [G |-> "G", L |-> l, num_seeds |-> k,
                       beta |-> b, mu |-> m]
            /\ beta = b
            /\ mu = m
    /\ H = "none"
    /\ N = 0
    /\ TS = <<>>
    /\ index_to_node = <<>>
    /\ t = 0
    /\ nodes = <<>>
    /\ error = "none"
    /\ ret = None
    /\ draws = NoDraws
    /\ run = 1
    /\ tape = NoTape
    /\ first = None

\* The statements of simulate.
Step ==
    \/ CopyAndAllocate
    \/ ResolveDefaults
    \/ Seed
    \/ LoopExit
    \/ Break
    \/ BeginPass
    \/ Visit
    \/ Commit
    \/ Return

\* A call followed to its end.  The call is one sequential computation:
\* while a statement remains to be executed, one is executed.
InitLive == Entered(MaxLiveCells)

SpecLive == InitLive /\ [][Step]_vars /\ WF_vars(Step)

\* A call whose passes draw their outcomes beforehand.
StepFixed ==
    \/ CopyAndAllocate
    \/ ResolveDefaults
    \/ Seed
    \/ LoopExit
    \/ Break
    \/ BeginPassFixed
    \/ VisitFixed
    \/ Commit
    \/ Return

InitPass == Entered(MaxPassCells)

SpecPass == InitPass /\ [][StepFixed]_vars

\* Lines 63-69 and 78 of the first call: the outcomes drawn are kept.
SeedRecord ==
    /\ run = 1
    /\ pc = "seed"
    /\ \E seeds \in SeedDraws :
          /\ SeedWith(seeds)
          /\ tape' = IF pc' = "loop" THEN [tape EXCEPT !.seeds = seeds]
                     ELSE tape
    /\ UNCHANGED <<run, first>>

BeginPassRecord ==
    /\ run = 1
    /\ pc = "loop"
    /\ \E order \in permutation(heap[H].nodes) :
          \E d \in DrawTables(heap[H], beta, mu) :
             /\ BeginPassWith(order, d)
             /\ tape' = [tape EXCEPT
                            !.passes = Append(@, [order |-> order, draws |-> d])]
    /\ UNCHANGED <<run, first>>

\* simulate is called again on the same object with the same arguments.
CallAgain ==
    /\ pc = "done"
    /\ run = 1
    /\ run' = 2
    /\ first' = ret
    /\ pc' = "copy"
    /\ beta' = args.beta
    /\ mu' = args.mu
    /\ H' = "none"
    /\ N' = 0
    /\ TS' = <<>>
    /\ index_to_node' = <<>>
    /\ t' = 0
    /\ nodes' = <<>>
    /\ ret' = None
    /\ draws' = NoDraws
    /\ UNCHANGED <<args, heap, results, error, tape>>

\* Lines 63-69 and 78 of the second call: the random source returns what
\* it returned to the first call.
SeedReplay ==
    /\ run = 2
    /\ pc = "seed"
    /\ SeedWith(tape.seeds)
    /\ UNCHANGED <<run, tape, first>>

BeginPassReplay ==
    /\ run = 2
    /\ pc = "loop"
    /\ tape.passes # <<>>
    /\ BeginPassWith(Head(tape.passes).order, Head(tape.passes).draws)
    /\ tape' = [tape EXCEPT !.passes = Tail(@)]
    /\ UNCHANGED <<run, first>>

StepReplay ==
    \/ CopyAndAllocate
    \/ ResolveDefaults
    \/ SeedRecord
    \/ SeedReplay
    \/ LoopExit
    \/ Break
    \/ BeginPassRecord
    \/ BeginPassReplay
    \/ VisitFixed
    \/ Commit
    \/ Return
    \/ CallAgain

InitReplay == Entered(MaxReplayCells)

SpecReplay == InitReplay /\ [][StepReplay]_vars

TypeOK ==
    /\ pc \in {"idle", "copy", "defaults", "seed", "loop", "visit", "return",
               "done", "failed"}
    /\ error \in {"none", "ValueError", "IndexError"}
    /\ H \in Refs \cup {"none"}

(***************************************************************************)
(* Vocabulary of the properties.                                           *)
(***************************************************************************)
\* The caller's graph and its size.
InputGraph == heap[args.G]
InputN == number_of_nodes(InputGraph)

\* The call has been made.
Called == pc # "idle"

\* Column 0 is written and the loop has been entered.
Seeded == pc \in {"loop", "visit", "return", "done"}

\* simulate has returned a time series.
Returned == pc = "done"

ColSum(M, c) == SumSeq(Col(M, c))
Total(M) == SumSeq([i \in 1..Len(M) |-> SumSeq(M[i])])

\* The row of a node in TS.
RowOf(v) == 1 + CHOOSE k \in DOMAIN IndexToNode(InputGraph) :
                    IndexToNode(InputGraph)[k] = v

\* The arguments are within the contract of simulate.
ValidArgs ==
    /\ args.L >= 1
    /\ args.num_seeds \in 0..InputN

\* A rate that was supplied and lies outside [0, 1].
OutOfRange(p) == p # None /\ (p[1] < 0 \/ p[1] > p[2])

\* Every node is adjacent to every other node.
IsComplete(g) ==
    \A i \in DOMAIN g.adj : \A j \in DOMAIN g.adj : i # j => j \in g.adj[i]

\* The Python exceptions that report an invalid parameter.
InvalidParameter == {"ValueError", "IndexError"}

\* No node has a neighbour: the average degree is 0.
ZeroDegree(g) == \A i \in DOMAIN g.adj : g.adj[i] = {}

\* The working copy and the attributes of its nodes.
Work == heap[H]
Infected(v) == Work.attrs[v].infected
NextInfected(v) == Work.attrs[v].next_infected
WorkNodes == DOMAIN Work.attrs

(***************************************************************************)
(* C1: for every graph with N >= 1 nodes and every L >= 1, the time series *)
(* simulate returns has exactly N rows and exactly L columns, whether the  *)
(* loop ran all L-1 timesteps or broke early on extinction; and every      *)
(* call with valid arguments that ends, ends by returning.                 *)
(***************************************************************************)
C1_ShapeNL ==
    /\ Returned =>
         /\ Len(ret) = InputN
         /\ \A i \in 1..Len(ret) : Len(ret[i]) = args.L
         /\ results.TS = ret
    /\ (ValidArgs /\ Called) => pc # "failed"

\* A run on 3 nodes with L = 3 that broke early after one pass.
C1_Witness ==
    /\ Returned
    /\ InputN = 3 /\ args.L = 3
    /\ t = 2
    /\ ColSum(ret, 0) >= 1 /\ ColSum(ret, 1) = 0
    /\ shape(ret) = <<3, 3>>

(***************************************************************************)
(* C2: extinction is absorbing.  In the returned TS every column after a  *)
(* column that sums to 0 sums to 0, and no pass over the nodes is made     *)
(* when the previous column has no infected node.                          *)
(***************************************************************************)
C2_ExtinctionAbsorbing ==
    /\ Returned =>
         \A c \in 0..(args.L - 1) : \A d \in 0..(args.L - 1) :
            (c < d /\ ColSum(ret, c) = 0) => ColSum(ret, d) = 0
    /\ pc = "visit" => ColSum(TS, t - 1) >= 1

\* The epidemic died in the pass of timestep 1 and column 2 stayed empty.
C2_Witness ==
    /\ Returned
    /\ args.L = 3
    /\ ColSum(ret, 0) = 2
    /\ ColSum(ret, 1) = 0
    /\ ColSum(ret, 2) = 0

(***************************************************************************)
(* C3: with beta supplied as 0.0 (mu in [0, 1], num_seeds in [0, N]) the   *)
(* number of infected nodes never increases from one column of the         *)
(* returned TS to the next.                                                *)
(***************************************************************************)
C3_NoSpread ==
    (/\ Returned
     /\ args.beta = Rate(0, 1)
     /\ args.mu # None /\ ~OutOfRange(args.mu))
    => \A c \in 1..(args.L - 1) : ColSum(ret, c) <= ColSum(ret, c - 1)

(***************************************************************************)
(* C4: with beta = 0.0, mu = 0.0 and num_seeds = k every column of the     *)
(* returned TS equals column 0 and sums to k.                              *)
(***************************************************************************)
C4_CertainPersistence ==
    (/\ Returned
     /\ args.beta = Rate(0, 1)
     /\ args.mu = Rate(0, 1))
    => \A c \in 0..(args.L - 1) :
          /\ Col(ret, c) = Col(ret, 0)
          /\ ColSum(ret, c) = args.num_seeds

(***************************************************************************)
(* C5: for num_seeds in [0, N], column 0 of TS holds exactly num_seeds     *)
(* ones and N - num_seeds zeros, and right after seeding the infected      *)
(* attribute of every node of the working graph is its entry of column 0.  *)
(***************************************************************************)
C5_SeedCount ==
    /\ Seeded =>
         /\ Cardinality({i \in 1..InputN : TS[i][1] = 1}) = args.num_seeds
         /\ Cardinality({i \in 1..InputN : TS[i][1] = 0})
               = InputN - args.num_seeds
    /\ (pc = "loop" /\ t = 1) =>
         \A v \in DOMAIN InputGraph.attrs :
            heap[H].attrs[v].infected = TS[RowOf(v)][1]

\* Two of three nodes have just been seeded.
C5_Witness ==
    /\ pc = "loop" /\ t = 1
    /\ InputN = 3 /\ args.num_seeds = 2
    /\ ColSum(TS, 0) = 2
    /\ \E v \in 1..3 : heap[H].attrs[v].infected = 0

(***************************************************************************)
(* C6: at every point of the run and on return every entry of TS is 0 or   *)
(* 1, for every graph, L, num_seeds, beta and mu.                          *)
(***************************************************************************)
C6_Binary ==
    /\ \A i \in 1..Len(TS) : \A c \in 1..Len(TS[i]) : TS[i][c] \in {0, 1}
    /\ \A i \in 1..Len(ret) : \A c \in 1..Len(ret[i]) : ret[i][c] \in {0, 1}

\* A returned series in which a node with two neighbours infected at
\* column 0 is infected at column 1.
C6_Witness ==
    /\ Returned
    /\ InputN = 3 /\ args.L >= 2
    /\ \E j \in 1..3 :
          /\ ret[RowOf(j)][2] = 1
          /\ Cardinality({i \in InputGraph.adj[j] : ret[RowOf(i)][1] = 1}) = 2
    /\ \E i \in 1..3 : \E c \in 1..args.L : ret[i][c] = 0

(***************************************************************************)
(* C7: with beta = 1.0 every neighbour of a node infected at column t-1    *)
(* is infected at column t; and on a complete graph of N >= 2 nodes with   *)
(* num_seeds = 1, beta = 1.0, mu = 1.0 and L >= 2 the returned TS sums to  *)
(* more than 1.                                                            *)
(***************************************************************************)
C7_GuaranteedSpread ==
    (Returned /\ args.beta = Rate(1, 1)) =>
       /\ \A c \in 1..(args.L - 1) :
            \A i \in DOMAIN InputGraph.adj : \A j \in InputGraph.adj[i] :
               ret[RowOf(i)][c] = 1 => ret[RowOf(j)][c + 1] = 1
       /\ (/\ IsComplete(InputGraph)
           /\ InputN >= 2
           /\ args.L >= 2
           /\ args.num_seeds = 1
           /\ args.mu = Rate(1, 1))
          => Total(ret) > 1

\* The complete graph of 3 nodes, one seed, beta = mu = 1, L = 3: one node,
\* then its two neighbours, then all three.
C7_Witness ==
    /\ Returned
    /\ IsComplete(InputGraph) /\ InputN = 3
    /\ args.L = 3 /\ args.num_seeds = 1
    /\ args.beta = Rate(1, 1) /\ args.mu = Rate(1, 1)
    /\ ColSum(ret, 1) = 2
    /\ Total(ret) > 1

(***************************************************************************)
(* C8: the caller's graph is never mutated by simulate, whether the call   *)
(* returns or fails: no step of the call changes its nodes, its edges or   *)
(* any node attribute; infected and next_infected are written on the       *)
(* private copy only.                                                      *)
(***************************************************************************)
C8_InputNotMutated ==
    [][Called => heap'[args.G] = heap[args.G]]_vars

\* The call returned, the copy carries the attributes, the input does not.
C8_Witness ==
    /\ Returned
    /\ H # args.G
    /\ \A v \in DOMAIN heap[H].attrs : heap[H].attrs[v].next_infected = 0
    /\ \E v \in DOMAIN heap[H].attrs : heap[H].attrs[v].infected = 1
    /\ \A v \in DOMAIN InputGraph.attrs : InputGraph.attrs[v] = NoAttrs

(***************************************************************************)
(* C9: a call that supplies beta or mu outside [0, 1] fails at entry: no   *)
(* timestep is simulated and no time series is returned.                   *)
(***************************************************************************)
C9_RatesValidated ==
    (Called /\ (OutOfRange(args.beta) \/ OutOfRange(args.mu))) =>
       /\ pc \notin {"visit", "return", "done"}
       /\ ret = None

(***************************************************************************)
(* C10: a call with num_seeds < 0, num_seeds > N or L < 1 fails with an    *)
(* invalid-parameter error before any timestep is simulated, returns no    *)
(* partial result and leaves the stored results as they were.              *)
(***************************************************************************)
C10_BadArgsFail ==
    (Called /\ ~ValidArgs) =>
       /\ pc \in {"copy", "defaults", "seed", "failed"}
       /\ pc = "failed" => error \in InvalidParameter
       /\ t = 0
       /\ ret = None
       /\ results = EmptyResults

\* L = 0 with a valid seed count: the write of column 0 fails.
C10_Witness ==
    /\ pc = "failed"
    /\ args.L = 0
    /\ args.num_seeds \in 0..InputN
    /\ error = "IndexError"
    /\ results = EmptyResults

(***************************************************************************)
(* C11: when beta is omitted and no node has a neighbour (average degree   *)
(* 0), simulate fails instead of running with an undefined default beta:   *)
(* no timestep is simulated and no time series is returned.                *)
(***************************************************************************)
C11_ZeroDegreeRejected ==
    (Called /\ args.beta = None /\ ZeroDegree(InputGraph)) =>
       /\ pc \notin {"visit", "return", "done"}
       /\ ret = None

(***************************************************************************)
(* C12: a second call on the same simulator object with the same graph, L, *)
(* num_seeds, beta and mu, given the random outcomes of the first call     *)
(* (seed permutation, visiting orders, draws), writes the columns the      *)
(* first call wrote, needs no outcome the first call did not draw, uses    *)
(* them all, and returns the matrix the first call returned.               *)
(***************************************************************************)
C12_Deterministic ==
    run = 2 =>
       /\ pc # "failed"
       /\ Seeded => \A c \in 1..t : Col(TS, c - 1) = Col(first, c - 1)
       /\ (pc = "loop" /\ t <= args.L - 1 /\ ~(ColSum(TS, t - 1) < 1)) =>
             tape.passes # <<>>
       /\ Returned => (ret = first /\ tape.passes = <<>>)

\* The second call has returned, on a copy of its own; the first call
\* cured every seed in its first pass and broke off before the last column.
C12_Witness ==
    /\ run = 2
    /\ Returned
    /\ args.L = 3
    /\ ColSum(first, 0) >= 1
    /\ ColSum(first, 1) = 0
    /\ results.ground_truth = "H2"
    /\ heap["H"] # NoGraph

(***************************************************************************)
(* C13: with the outcomes of a pass fixed (one transmission outcome per    *)
(* (infected node, neighbour) pair, one cure outcome per infected node),   *)
(* the pass in any visiting order commits the state, and writes the        *)
(* column, that the pass in the order of the node list produces from the   *)
(* previous column; and during a pass every node still to be visited has   *)
(* the infected value of the previous column, whatever cures were written. *)
(***************************************************************************)
PrevState ==
    set_all_node_attributes(
        set_node_attributes(Work, [v \in WorkNodes |-> TS[RowOf(v)][t - 1]],
                            "infected"),
        0, "next_infected")

C13_OrderIrrelevant ==
    /\ (pc = "loop" /\ t >= 2) =>
          LET ref == CommitAttrs(RunPass(PrevState, Work.nodes, draws, beta, mu))
          IN  /\ Work = ref
              /\ \A v \in WorkNodes : TS[RowOf(v)][t] = ref.attrs[v].infected
    /\ pc = "visit" =>
          \A k \in DOMAIN nodes : Infected(nodes[k]) = TS[RowOf(nodes[k])][t]

\* The node the node list visits first is visited last here; it is infected
\* and its transmission succeeds towards a neighbour that was infected and
\* has been cured earlier in the pass.
C13_Witness ==
    /\ pc = "visit"
    /\ InputN >= 2
    /\ nodes = <<Work.nodes[1]>>
    /\ Infected(nodes[1]) = 1
    /\ \E v \in draws.cure :
          /\ v # nodes[1]
          /\ Infected(v) = 0
          /\ <<nodes[1], v>> \in draws.xmit

(***************************************************************************)
(* C14: index_to_node is a bijection between 0..N-1 and the nodes of the   *)
(* graph, it is the one stored in the results, and every column of TS,     *)
(* when it is written (column 0 included), holds in row i the infected     *)
(* value of node index_to_node[i] of the working copy.                     *)
(***************************************************************************)
C14_RowsFollowIndexMap ==
    /\ Seeded =>
         /\ DOMAIN index_to_node = 0..(InputN - 1)
         /\ {index_to_node[k] : k \in DOMAIN index_to_node}
               = {InputGraph.nodes[k] : k \in 1..InputN}
         /\ \A k \in DOMAIN index_to_node : \A m \in DOMAIN index_to_node :
               index_to_node[k] = index_to_node[m] => k = m
    /\ pc = "loop" =>
         \A k \in DOMAIN index_to_node :
            TS[k + 1][t] = Infected(index_to_node[k])
    /\ Returned => results.index_to_node = index_to_node

\* Column 1 has just been written for three nodes: one that was seeded
\* or not and is infected now, and one that was the opposite and is not.
C14_Witness ==
    /\ pc = "loop" /\ t = 2
    /\ InputN = 3
    /\ \E k \in 0..2 : \E m \in 0..2 :
          /\ TS[k + 1][2] = 1 /\ Infected(index_to_node[k]) = 1
          /\ TS[m + 1][2] = 0 /\ Infected(index_to_node[m]) = 0
          /\ TS[k + 1][1] # TS[m + 1][1]

(***************************************************************************)
(* C15: the step that ends a timestep overwrites every node's infected by  *)
(* its next_infected and leaves next_infected 0 on every node; whenever    *)
(* the call is at the loop head, after the loop or returned (the loop      *)
(* completed, broke early or never ran), every next_infected is 0; and a   *)
(* visit never changes a next_infected from 1 to 0.                        *)
(***************************************************************************)
C15_StagingCommitReset ==
    [][/\ (pc = "visit" /\ pc' = "loop") =>
             \A v \in WorkNodes :
                /\ heap'[H].attrs[v].infected = NextInfected(v)
                /\ heap'[H].attrs[v].next_infected = 0
       /\ pc' \in {"loop", "return", "done"} =>
             \A v \in DOMAIN heap'[H'].attrs :
                heap'[H'].attrs[v].next_infected = 0
       /\ (pc = "visit" /\ pc' = "visit") =>
             \A v \in WorkNodes :
                NextInfected(v) = 1 => heap'[H].attrs[v].next_infected = 1
      ]_vars

\* A second pass is under way: one node is staged, another is not, and
\* the flags committed by the first pass are in column 1.
C15_Witness ==
    /\ pc = "visit" /\ t = 2
    /\ Len(nodes) = 1
    /\ \E v \in WorkNodes : NextInfected(v) = 1
    /\ \E v \in WorkNodes : NextInfected(v) = 0
    /\ ColSum(TS, 1) >= 1

(***************************************************************************)
(* C16: every column written by a timestep is the synchronous update of    *)
(* the column before it: node j is 1 exactly when it was 1 and its cure    *)
(* draw failed, or some neighbour i was 1 and the transmission draw from i *)
(* to j succeeded.                                                         *)
(***************************************************************************)
C16_SynchronousUpdate ==
    (pc = "loop" /\ t >= 2) =>
       \A j \in WorkNodes :
          TS[RowOf(j)][t] = 1 <=>
             \/ TS[RowOf(j)][t - 1] = 1 /\ j \notin draws.cure
             \/ \E i \in InputGraph.adj[j] :
                   TS[RowOf(i)][t - 1] = 1 /\ <<i, j>> \in draws.xmit

\* A node cured during the pass is 1 in the new column because a neighbour
\* transmitted to it, and another infected node is cured and 0.
C16_Witness ==
    /\ pc = "loop" /\ t >= 2
    /\ \E j \in draws.cure : TS[RowOf(j)][t] = 1
    /\ \E j \in draws.cure : TS[RowOf(j)][t] = 0

(***************************************************************************)
(* C17: on return the graph stored in the results agrees with the last     *)
(* column of TS (row i with the infected attribute of index_to_node[i]),   *)
(* whether the loop completed, broke early or never ran, and the stored    *)
(* TS is the returned one.                                                 *)
(***************************************************************************)
C17_SnapshotIsLastColumn ==
    Returned =>
       /\ results.TS = ret
       /\ \A k \in 0..(InputN - 1) :
             heap[results.ground_truth].attrs[results.index_to_node[k]].infected
                = ret[k + 1][args.L]

\* The loop completed with L = 3 and the snapshot holds both an infected
\* and a susceptible node.
C17_Witness ==
    /\ Returned
    /\ args.L = 3 /\ t = 3
    /\ \E v \in WorkNodes : Infected(v) = 1 /\ ret[RowOf(v)][3] = 1
    /\ \E v \in WorkNodes : Infected(v) = 0 /\ ret[RowOf(v)][3] = 0

(***************************************************************************)
(* C18: no spontaneous infection.  For every beta and mu, a node that is   *)
(* infected at column t >= 1 was infected at column t-1 or has a           *)
(* neighbour that was infected at column t-1.                              *)
(***************************************************************************)
C18_NoSpontaneousInfection ==
    Seeded =>
       \A c \in 1..(Len(TS[1]) - 1) : \A j \in DOMAIN InputGraph.adj :
          TS[RowOf(j)][c + 1] = 1 =>
             \/ TS[RowOf(j)][c] = 1
             \/ \E i \in InputGraph.adj[j] : TS[RowOf(i)][c] = 1

\* A returned series in which a node became infected through a neighbour
\* while a node without infected neighbour stayed susceptible.
C18_Witness ==
    /\ Returned
    /\ InputN = 3 /\ args.L >= 2
    /\ \E j \in 1..3 :
          /\ ret[RowOf(j)][1] = 0 /\ ret[RowOf(j)][2] = 1
          /\ \E i \in InputGraph.adj[j] : ret[RowOf(i)][1] = 1
    /\ \E j \in 1..3 :
          /\ ret[RowOf(j)][1] = 0 /\ ret[RowOf(j)][2] = 0
          /\ \A i \in InputGraph.adj[j] : ret[RowOf(i)][1] = 0

(***************************************************************************)
(* C19: every call with valid parameters terminates.  A pass is only made  *)
(* for a timestep t in 1..L-1 and is followed by the next timestep, the    *)
(* nodes still to visit in a pass are distinct nodes of the graph and a    *)
(* pass starts with all N of them, and the call eventually returns,        *)
(* whatever the random outcomes.                                           *)
(***************************************************************************)
C19_Terminates ==
    /\ [](pc = "visit" =>
            /\ t \in 1..(args.L - 1)
            /\ Len(nodes) <= InputN
            /\ \A k \in 1..Len(nodes) : nodes[k] \in WorkNodes
            /\ \A k \in 1..Len(nodes) : \A m \in 1..Len(nodes) :
                  nodes[k] = nodes[m] => k = m)
    /\ [][/\ (pc = "loop" /\ pc' = "visit") => Len(nodes') = InputN
          /\ (pc = "visit" /\ pc' = "loop") => t' = t + 1]_vars
    /\ [](Seeded => t <= args.L)
    /\ (Called /\ ValidArgs) ~> Returned

\* The loop ran to its end with the epidemic still alive: L - 1 = 2 passes
\* over 2 nodes were made before the return.
C19_Witness ==
    /\ Returned
    /\ InputN = 2 /\ args.L = 3
    /\ t = 3
    /\ ColSum(ret, 1) = 2
    /\ ColSum(ret, 2) >= 1

====
